---- MODULE Spec2Model ----
(***************************************************************************)
(* The Tic Tac Toe engine of src/index.js (handleTicTacToe and its         *)
(* helpers), as a state machine.  A command's handler runs synchronously   *)
(* up to its first await on the transport (sendMessage, editMessageText,   *)
(* deleteMessage); the handlers of other commands run while it is          *)
(* suspended there.  Every await is therefore a position (pc) of a handler,*)
(* and every stretch of code between two awaits is one action.             *)
(***************************************************************************)
EXTENDS Integers, Sequences, FiniteSets, TLC

\* ------------------------------------------------------------------ bounds

\* Handlers that may be suspended at a transport call at the same time.
MaxInFlight == 2
\* Conversations (chat ids 1..MaxChat).
MaxChat == 2
\* Users (user ids 1..MaxUser).
MaxUser == 3

\* Cells of the board: Array(9).
BoardCells == 9

Chats == 1 .. MaxChat
Users == 1 .. MaxUser
Slots == 1 .. MaxInFlight
\* Game objects alive at once: one per chat in the table, one per handler.
ObjIds == 1 .. (MaxChat + MaxInFlight)
\* Message handles alive at once: one per game object, one per handler local.
MsgIds == 1 .. (MaxChat + 2 * MaxInFlight + 1)

\* ----------------------------------------------------------- text values
\* Text is a sequence of one-character strings, so that toLowerCase,
\* startsWith, slice and parseInt are computed and not assumed.

Upper == <<"A","B","C","D","E","F","G","H","I","J","K","L","M",
           "N","O","P","Q","R","S","T","U","V","W","X","Y","Z">>
Lower == <<"a","b","c","d","e","f","g","h","i","j","k","l","m",
           "n","o","p","q","r","s","t","u","v","w","x","y","z">>
Digits == <<"0","1","2","3","4","5","6","7","8","9">>

ToLowerChar(ch) ==
    IF \E i \in 1 .. 26 : Upper[i] = ch
    THEN Lower[CHOOSE i \in 1 .. 26 : Upper[i] = ch]
    ELSE ch

\* String.prototype.toLowerCase
ToLower(s) == [i \in 1 .. Len(s) |-> ToLowerChar(s[i])]

\* s.startsWith('@')
StartsWithAt(s) == Len(s) >= 1 /\ s[1] = "@"

\* s.slice(1)
Slice1(s) == IF Len(s) = 0 THEN <<>> ELSE Tail(s)

IsDigit(ch) == \E i \in 1 .. 10 : Digits[i] = ch
DigitVal(ch) == (CHOOSE i \in 1 .. 10 : Digits[i] = ch) - 1

RECURSIVE DigitsValue(_, _)
\* The value of the longest prefix of decimal digits of s, after acc.
DigitsValue(s, acc) ==
    IF Len(s) = 0 \/ ~IsDigit(s[1]) THEN acc
    ELSE DigitsValue(Tail(s), 10 * acc + DigitVal(s[1]))

NaN == [nan |-> TRUE, val |-> 0]

\* No cell number: args[1] has not been parsed.
NotRead == [nan |-> TRUE, val |-> -1]

\* parseInt(args[1]): an optional sign, then the longest prefix of digits;
\* NaN when there is none (also for undefined, modelled as <<>>).
\* (A "0x" prefix would switch to radix 16: no such text is among the inputs.)
ParseInt(s) ==
    LET neg  == Len(s) >= 1 /\ s[1] = "-"
        body == IF Len(s) >= 1 /\ s[1] \in {"-", "+"} THEN Tail(s) ELSE s
    IN  IF Len(body) = 0 \/ ~IsDigit(body[1]) THEN NaN
        ELSE [nan |-> FALSE,
              val |-> IF neg THEN 0 - DigitsValue(body, 0) ELSE DigitsValue(body, 0)]

\* The words of the commands.
tStart   == <<"s","t","a","r","t">>
tAccept  == <<"a","c","c","e","p","t">>
tDecline == <<"d","e","c","l","i","n","e">>
tMove    == <<"m","o","v","e">>
tQuit    == <<"q","u","i","t">>
tEnd     == <<"e","n","d">>

\* Display names and mentions.
alice    == <<"a","l","i","c","e">>
Bob      == <<"B","o","b">>
atBob    == <<"@","B","o","b">>
atAlice  == <<"@","A","l","i","c","e">>
atBOB    == <<"@","B","O","B">>
atOnly   == <<"@">>

\* ----------------------------------------------------------- the inputs

\* msg.from.username || msg.from.first_name: a user's name may change
\* between two commands.
Names == {alice, Bob}

\* The words after ".ttt".
MoveWords(cells) == { <<tMove, <<Digits[k + 1]>> >> : k \in cells }

OtherWords ==
    { <<>>, <<tStart>>, <<tStart, atBOB>>, <<atBob>>, <<atAlice>>, <<atOnly>>,
      <<tAccept>>, <<tDecline>>, <<tQuit>>, <<tEnd>>, <<tMove>>,
      <<tMove, <<"1","0">>>>, <<tMove, <<"x">>>>,
      << <<"M","O","V","E">>, <<"5","x">> >> }

ArgLists == OtherWords \cup MoveWords(0 .. 9)

\* const subCommand = args[0] ? args[0].toLowerCase() : null   (null: <<>>)
subCommand(args) == IF Len(args) >= 1 THEN ToLower(args[1]) ELSE <<>>

\* What the history records of a sub-command.
SubClass(sub) ==
    CASE sub = <<>>        -> "none"
      [] sub = tStart      -> "start"
      [] StartsWithAt(sub) -> "mention"
      [] sub = tAccept     -> "accept"
      [] sub = tDecline    -> "decline"
      [] sub = tMove       -> "move"
      [] sub = tQuit       -> "quit"
      [] sub = tEnd        -> "end"
      [] OTHER             -> "other"

\* const opponentMention = subCommand.startsWith('@') ? subCommand
\*     : (args[1] && args[1].startsWith('@') ? args[1] : null);   (null: <<>>)
OpponentMention(sub, args) ==
    IF StartsWithAt(sub) THEN sub
    ELSE IF Len(args) >= 2 /\ StartsWithAt(args[2]) THEN args[2]
    ELSE <<>>

\* A command as handleTicTacToe reads it: its parameters, and what the
\* first lines of each branch compute of them alone.
ReadCommand(userId, userName, args) ==
    [userId   |-> userId,
     userName |-> userName,
     args     |-> args,
     sub      |-> subCommand(args),
     class    |-> SubClass(subCommand(args)),
     mention  |-> OpponentMention(subCommand(args), args),
     move     |-> ParseInt(IF Len(args) >= 2 THEN args[2] ELSE <<>>)]

Commands(actors, words) ==
    {ReadCommand(a[1], a[2], w) : a \in actors, w \in words}

\* Every name the model compares: the users' and the mentions'.
Texts ==
    Names \cup {Slice1(OpponentMention(subCommand(a), a)) : a \in ArgLists}

\* toLowerCase, tabulated over the names of the model.
LowerOf == [s \in Texts |-> ToLower(s)]

\* opponentUsername.toLowerCase() === userName.toLowerCase()
SameName(a, b) == LowerOf[a] = LowerOf[b]

\* ------------------------------------------------------------------ state

null == "null"      \* an empty cell
NoId == 0           \* null / undefined for an id, a handle or a table entry

VARIABLES
    ticTacToeGames, \* chat id -> game object (NoId: no entry)
    heap,           \* game object -> its fields
    handlers,       \* the suspended handlers: position and locals
    last            \* the step taken last and its outcome (history)

vars == <<ticTacToeGames, heap, handlers, last>>

Free == [status |-> "free"]
Idle == [pc |-> "idle", chatId |-> NoId, game |-> NoId, winner |-> FALSE, msg |-> NoId]

EmptyBoard == [i \in 0 .. (BoardCells - 1) |-> null]

\* The object literal of a new game.
NewGame(userId, userName, opponentUsername) ==
    [board         |-> EmptyBoard,
     currentPlayer |-> "X",
     players       |-> [X |-> [id |-> userId, name |-> userName],
                        O |-> [id |-> NoId, name |-> opponentUsername]],
     status        |-> "pending",
     messageId     |-> NoId]

\* let game = ticTacToeGames[chatId]   (Free: undefined)
GameOf(chatId) == ticTacToeGames[chatId]
HasGame(chatId) == GameOf(chatId) # NoId
GameRec(chatId) == IF HasGame(chatId) THEN heap[GameOf(chatId)] ELSE Free
StatusOf(chatId) == IF HasGame(chatId) THEN heap[GameOf(chatId)].status ELSE "absent"

Init ==
    /\ ticTacToeGames = [c \in Chats |-> NoId]
    /\ heap = [o \in ObjIds |-> Free]
    /\ handlers = [h \in Slots |-> Idle]
    /\ last = [sub |-> "none", arg |-> NotRead, out |-> "none"]

\* ---------------------------------------------------------------- helpers
\* Object identities and message handles are opaque to the code: it stores
\* them, passes them on and tests them for null, and never compares two of
\* them.  Every action therefore ends by giving them canonical names, so
\* that two states that differ only in these names are one state.

\* The suspended handlers first, in their order.
Compact(hs) ==
    LET busy == SelectSeq(hs, LAMBDA r : r.pc # "idle")
    IN  [h \in Slots |-> IF h <= Len(busy) THEN busy[h] ELSE Idle]

\* The canonical name of object o: its chat id while the table holds it,
\* else its rank among the objects only handlers hold; NoId for garbage.
ObjName(tbl, hs, o) ==
    IF \E c \in Chats : tbl[c] = o
    THEN CHOOSE c \in Chats : tbl[c] = o
    ELSE IF \A h \in Slots : hs[h].game # o THEN NoId
    ELSE LET first == CHOOSE h \in Slots :
                          hs[h].game = o /\ \A k \in 1 .. (h - 1) : hs[k].game # o
         IN  MaxChat + Cardinality({hs[k].game : k \in 1 .. first}
                                      \ ({NoId} \cup {tbl[c] : c \in Chats}))

\* The canonical name of handle m: its rank in the order of its holders L.
MsgName(L, m) ==
    IF m = NoId THEN NoId
    ELSE LET first == CHOOSE i \in 1 .. Len(L) :
                          L[i] = m /\ \A j \in 1 .. (i - 1) : L[j] # m
         IN  Cardinality({L[j] : j \in 1 .. first} \ {NoId})

\* The handles in the order of their holders: the objects, then the handlers.
Holders(hs, hp) ==
    [i \in 1 .. (Cardinality(ObjIds) + MaxInFlight) |->
        IF i <= Cardinality(ObjIds)
        THEN (IF hp[i] = Free THEN NoId ELSE hp[i].messageId)
        ELSE hs[i - Cardinality(ObjIds)].msg]

RenameMsgs(tbl, hs, hp, name) ==
    [tbl |-> tbl,
     hs  |-> [h \in Slots |-> [hs[h] EXCEPT !.msg = name[@]]],
     hp  |-> [n \in ObjIds |->
                IF hp[n] = Free THEN Free ELSE [hp[n] EXCEPT !.messageId = name[@]]]]

NameMsgs(tbl, hs, hp, L) ==
    RenameMsgs(tbl, hs, hp, [m \in {NoId} \cup MsgIds |->
                                IF \E i \in 1 .. Len(L) : L[i] = m THEN MsgName(L, m)
                                ELSE NoId])

\* An object the table no longer holds: of its fields the handlers that
\* still hold it read and write messageId only (after their awaits), so
\* that is what is kept of it.
Detached(game) == [status |-> "detached", messageId |-> game.messageId]

RenameObjs(tbl, hs, hp, name) ==
    [tbl |-> [c \in Chats |-> IF tbl[c] = NoId THEN NoId ELSE c],
     hs  |-> [h \in Slots |-> [hs[h] EXCEPT !.game = IF @ = NoId THEN NoId ELSE name[@]]],
     hp  |-> [n \in ObjIds |->
                IF \E o \in ObjIds : name[o] = n
                THEN IF n <= MaxChat
                     THEN hp[CHOOSE o \in ObjIds : name[o] = n]
                     ELSE Detached(hp[CHOOSE o \in ObjIds : name[o] = n])
                ELSE Free]]

NormalizeMsgs(n) == NameMsgs(n.tbl, n.hs, n.hp, Holders(n.hs, n.hp))

NormalizeObjs(tbl, hs, hp) ==
    NormalizeMsgs(RenameObjs(tbl, hs, hp, [o \in ObjIds |-> ObjName(tbl, hs, o)]))

Normalize(tbl, hs, hp) == NormalizeObjs(tbl, Compact(hs), hp)

SetTo(n) ==
    /\ ticTacToeGames' = n.tbl
    /\ handlers' = n.hs
    /\ heap' = n.hp

\* The next state: table tbl, handlers hs, objects hp.
Set(tbl, hs, hp) == SetTo(Normalize(tbl, hs, hp))

\* The id of the object a new literal gets: an unused one.
NewObj == CHOOSE o \in ObjIds :
              /\ heap[o] = Free
              /\ \A p \in ObjIds : heap[p] = Free => o <= p

MsgInUse ==
    {heap[o].messageId : o \in {p \in ObjIds : heap[p] # Free}}
        \cup {handlers[h].msg : h \in Slots}

\* The message_id of a message the transport has just sent: a handle no
\* object or local holds.
NewMsg == CHOOSE m \in MsgIds :
              /\ m \notin MsgInUse
              /\ \A k \in MsgIds : k \notin MsgInUse => m <= k

HasFreeSlot == \E h \in Slots : handlers[h].pc = "idle"
FreeSlot == CHOOSE h \in Slots :
                /\ handlers[h].pc = "idle"
                /\ \A k \in Slots : handlers[k].pc = "idle" => h <= k

\* The history of a command: its sub-command, the cell number once the
\* handler has parsed it (const move = parseInt(args[1])), and the reply.
Cmd(cmd, out) ==
    [sub |-> cmd.class,
     arg |-> IF out \in {"InvalidMove", "Moved", "GameOver"} THEN cmd.move ELSE NotRead,
     out |-> out]

\* The history of a resumption: the await and the transport's answer.
Resumed(pc, ok) ==
    [sub |-> pc, arg |-> NotRead, out |-> IF ok THEN "ok" ELSE "failed"]

\* bot.sendMessage(chatId, <error text>); return;  -- not awaited, no change
Reply(cmd, out) ==
    /\ last' = Cmd(cmd, out)
    /\ UNCHANGED <<ticTacToeGames, heap, handlers>>

\* The handler suspends at an await, at position pc, with its locals.
Suspend(pc, chatId, winner) ==
    [handlers EXCEPT ![FreeSlot] = [pc |-> pc, chatId |-> chatId, game |-> GameOf(chatId),
                                    winner |-> winner, msg |-> NoId]]

\* The handler in slot h returns (or its exception reaches the catch of
\* the message handler).
Return(h) == [handlers EXCEPT ![h] = Idle]

\* A delete that empties the table.
DeleteAll(chatId) == [c \in Chats |-> NoId]

\* delete ticTacToeGames[chatId]
Delete(chatId) == [ticTacToeGames EXCEPT ![chatId] = NoId]

\* --------------------------------------------- the branches of the dispatch

\* if ((subCommand === 'start' || subCommand.startsWith('@'))
\*     && (!game || game.status === 'ended'))
StartBranch(chatId, sub) ==
    /\ sub = tStart \/ StartsWithAt(sub)
    /\ ~HasGame(chatId) \/ StatusOf(chatId) = "ended"

AcceptBranch(chatId, sub) == ~StartBranch(chatId, sub) /\ sub = tAccept

DeclineBranch(chatId, sub) ==
    ~StartBranch(chatId, sub) /\ sub # tAccept /\ sub = tDecline

\* Past the three ifs above.
FellThrough(chatId, sub) ==
    ~StartBranch(chatId, sub) /\ sub # tAccept /\ sub # tDecline

\* ------------------------------------------------------------ game logic

Lines == << <<0, 1, 2>>, <<3, 4, 5>>, <<6, 7, 8>>,
            <<0, 3, 6>>, <<1, 4, 7>>, <<2, 5, 8>>,
            <<0, 4, 8>>, <<2, 4, 6>> >>

\* board[line[0]] && board[line[0]] === board[line[1]] && ... === board[line[2]]
LineWon(board, line) ==
    /\ board[line[1]] # null
    /\ board[line[1]] = board[line[2]]
    /\ board[line[1]] = board[line[3]]

\* An evaluation that looks for a full board before it looks at the lines.
checkFullBoardFirst(board) ==
    IF \A i \in 0 .. (BoardCells - 1) : board[i] # null THEN "draw"
    ELSE IF \E i \in 1 .. Len(Lines) : LineWon(board, Lines[i])
    THEN LET first == CHOOSE i \in 1 .. Len(Lines) :
                          /\ LineWon(board, Lines[i])
                          /\ \A j \in 1 .. (i - 1) : ~LineWon(board, Lines[j])
         IN  board[Lines[first][1]]
    ELSE null

\* 'X' or 'O' (the first line of Lines that is won), 'draw', or null.
checkTicTacToeWin(board) ==
    IF \E i \in 1 .. Len(Lines) : LineWon(board, Lines[i])
    THEN LET first == CHOOSE i \in 1 .. Len(Lines) :
                          /\ LineWon(board, Lines[i])
                          /\ \A j \in 1 .. (i - 1) : ~LineWon(board, Lines[j])
         IN  board[Lines[first][1]]
    ELSE IF \A i \in 0 .. (BoardCells - 1) : board[i] # null THEN "draw"
    ELSE null

\* The checks of accept without the comparison of the names.
AcceptCheckAnyName(game, userId, userName) ==
    IF game = Free \/ game.status # "pending" THEN "NoPendingChallenge"
    ELSE IF game.players.X.id = userId THEN "ChallengerCannotAccept"
    ELSE "Accepted"

\* The checks of accept without the comparison of the identities.
AcceptCheckAnyIdentity(game, userId, userName) ==
    IF game = Free \/ game.status # "pending" THEN "NoPendingChallenge"
    ELSE IF ~SameName(game.players.O.name, userName) THEN "NotTheChallengedPlayer"
    ELSE "Accepted"

\* The checks of accept, in the order of the code.
AcceptCheck(game, userId, userName) ==
    IF game = Free \/ game.status # "pending" THEN "NoPendingChallenge"
    ELSE IF ~SameName(game.players.O.name, userName) THEN "NotTheChallengedPlayer"
    ELSE IF game.players.X.id = userId THEN "ChallengerCannotAccept"
    ELSE "Accepted"

\* An accept that binds the accepter to the X slot.
AcceptedBindsX(game, userId) ==
    [game EXCEPT !.players.X.id = userId, !.status = "active"]

\* game.players.O.id = userId; game.status = 'active';
Accepted(game, userId) ==
    [game EXCEPT !.players.O.id = userId, !.status = "active"]

\* The checks of decline without the test of the actor.
DeclineCheckAnyone(game, userId, userName) ==
    IF game = Free \/ game.status # "pending" THEN "NoPendingChallenge"
    ELSE "Declined"

\* The checks of decline.
DeclineCheck(game, userId, userName) ==
    IF game = Free \/ game.status # "pending" THEN "NoPendingChallenge"
    ELSE IF SameName(game.players.O.name, userName) \/ game.players.X.id = userId
         THEN "Declined"
    ELSE "NotPartOfChallenge"

\* game.players.X.id === userId || (game.players.O.id && game.players.O.id === userId)
QuitCheck(game, userId) ==
    IF \/ game.players.X.id = userId
       \/ (game.players.O.id # NoId /\ game.players.O.id = userId)
    THEN "Quit"
    ELSE "NotAParticipant"

\* The checks of move without the test of the cell for a mark.
MoveCheckAnyCell(game, userId, move) ==
    IF game.players[game.currentPlayer].id # userId THEN "NotYourTurn"
    ELSE IF move.nan \/ move.val < 1 \/ move.val > 9 THEN "InvalidMove"
    ELSE "Moved"

\* The checks of move without the test of the turn.
MoveCheckAnyone(game, userId, move) ==
    IF \/ move.nan
       \/ move.val < 1
       \/ move.val > 9
       \/ game.board[move.val - 1] # null
    THEN "InvalidMove"
    ELSE "Moved"

\* The checks of move; move is parseInt(args[1]).
MoveCheck(game, userId, move) ==
    IF game.players[game.currentPlayer].id # userId THEN "NotYourTurn"
    ELSE IF \/ move.nan
            \/ move.val < 1
            \/ move.val > 9
            \/ game.board[move.val - 1] # null
         THEN "InvalidMove"
    ELSE "Moved"

\* A move after which the turn stays with the same mark.
MovedSameMark(game, cell) ==
    LET board == [game.board EXCEPT ![cell - 1] = game.currentPlayer]
    IN  IF checkTicTacToeWin(board) # null
        THEN [game EXCEPT !.board = board, !.status = "ended"]
        ELSE [game EXCEPT !.board = board]

\* A move that leaves the game active whatever the board it makes.
MovedNeverEnds(game, cell) ==
    [game EXCEPT !.board[cell - 1] = game.currentPlayer,
                 !.currentPlayer = IF game.currentPlayer = "X" THEN "O" ELSE "X"]

\* game.board[move - 1] = game.currentPlayer; then by checkTicTacToeWin,
\* status 'ended' or the turn of the other mark.
Moved(game, cell) ==
    LET board  == [game.board EXCEPT ![cell - 1] = game.currentPlayer]
        winner == checkTicTacToeWin(board)
    IN  IF winner # null
        THEN [game EXCEPT !.board = board, !.status = "ended"]
        ELSE [game EXCEPT !.board = board,
                          !.currentPlayer = IF game.currentPlayer = "X" THEN "O" ELSE "X"]

\* ------------------------------------- commands: up to the first await
\* (bot.on('message') awaits sendTyping before it dispatches; nothing is read
\* before that await, so a command is handled in the order of its dispatch.)

\* ticTacToeGames[chatId] = {...}; game = ticTacToeGames[chatId];
\* const invMsg = await bot.sendMessage(...)
Challenge(chatId, cmd, opponentUsername) ==
    /\ HasFreeSlot
    /\ Set([ticTacToeGames EXCEPT ![chatId] = NewObj],
           [handlers EXCEPT ![FreeSlot] =
               [pc |-> "start_send", chatId |-> chatId, game |-> NewObj,
                winner |-> FALSE, msg |-> NoId]],
           [heap EXCEPT ![NewObj] = NewGame(cmd.userId, cmd.userName, opponentUsername)])
    /\ last' = Cmd(cmd, "ChallengeIssued")

\* A start that does not look at the game of the conversation.
CmdStartOver(chatId, cmd) ==
    /\ cmd.sub = tStart \/ StartsWithAt(cmd.sub)
    /\ cmd.mention # <<>>
    /\ Challenge(chatId, cmd, Slice1(cmd.mention))

\* .ttt start [@name] / .ttt @name, with no game or an ended one in the table.
CmdStart(chatId, cmd) ==
    /\ StartBranch(chatId, cmd.sub)
    /\ IF HasGame(chatId) /\ StatusOf(chatId) # "ended"
       THEN Reply(cmd, "GameAlreadyInProgress")
       ELSE IF cmd.mention = <<>>
       THEN Reply(cmd, "InvalidOpponent")
       ELSE IF SameName(Slice1(cmd.mention), cmd.userName)
       THEN Reply(cmd, "InvalidOpponent")
       ELSE Challenge(chatId, cmd, Slice1(cmd.mention))

\* An accept that binds O before it has compared the identities.
AcceptBindsFirst(chatId, cmd, check) ==
    IF check = "ChallengerCannotAccept"
    THEN /\ Set(ticTacToeGames, handlers,
                [heap EXCEPT ![GameOf(chatId)].players.O.id = cmd.userId])
         /\ last' = Cmd(cmd, check)
    ELSE IF check # "Accepted"
    THEN Reply(cmd, check)
    ELSE /\ HasFreeSlot
         /\ Set(ticTacToeGames,
                Suspend("accept_send", chatId, FALSE),
                [heap EXCEPT ![GameOf(chatId)] = Accepted(@, cmd.userId)])
         /\ last' = Cmd(cmd, check)

AcceptWith(chatId, cmd, check) ==
    IF check # "Accepted"
    THEN Reply(cmd, check)
    ELSE /\ HasFreeSlot
         /\ Set(ticTacToeGames,
                Suspend("accept_send", chatId, FALSE),
                [heap EXCEPT ![GameOf(chatId)] = Accepted(@, cmd.userId)])
         /\ last' = Cmd(cmd, check)

\* .ttt accept
CmdAccept(chatId, cmd) ==
    /\ AcceptBranch(chatId, cmd.sub)
    /\ AcceptWith(chatId, cmd, AcceptCheck(GameRec(chatId), cmd.userId, cmd.userName))

DeclineWith(chatId, cmd, check) ==
    IF check # "Declined"
    THEN Reply(cmd, check)
    ELSE /\ HasFreeSlot
         /\ Set(ticTacToeGames, Suspend("decline_send", chatId, FALSE), heap)
         /\ last' = Cmd(cmd, check)

\* .ttt decline
CmdDecline(chatId, cmd) ==
    /\ DeclineBranch(chatId, cmd.sub)
    /\ DeclineWith(chatId, cmd, DeclineCheck(GameRec(chatId), cmd.userId, cmd.userName))

\* if (!game || game.status !== 'active'): any other sub-command, or none.
CmdNoActiveGame(chatId, cmd) ==
    /\ FellThrough(chatId, cmd.sub)
    /\ StatusOf(chatId) # "active"
    /\ Reply(cmd, "NoActiveGame")

\* The move is made: the game is now `after`; the rendering starts.
MoveTo(chatId, cmd, after) ==
    /\ HasFreeSlot
    /\ Set(ticTacToeGames,
           Suspend(IF after.messageId # NoId THEN "move_edit" ELSE "move_send",
                   chatId, after.status = "ended"),
           [heap EXCEPT ![GameOf(chatId)] = after])
    /\ last' = Cmd(cmd, IF after.status = "ended" THEN "GameOver" ELSE "Moved")

MoveWith(chatId, cmd, check) ==
    IF check # "Moved"
    THEN Reply(cmd, check)
    ELSE MoveTo(chatId, cmd, Moved(GameRec(chatId), cmd.move.val))

\* .ttt move n, on an active game
CmdMove(chatId, cmd) ==
    /\ FellThrough(chatId, cmd.sub)
    /\ StatusOf(chatId) = "active"
    /\ cmd.sub = tMove
    /\ MoveWith(chatId, cmd, MoveCheck(GameRec(chatId), cmd.userId, cmd.move))

QuitWith(chatId, cmd, check) ==
    IF check # "Quit"
    THEN Reply(cmd, check)
    ELSE /\ HasFreeSlot
         /\ Set(ticTacToeGames, Suspend("quit_send", chatId, FALSE), heap)
         /\ last' = Cmd(cmd, check)

\* .ttt quit / .ttt end, on an active game
CmdQuit(chatId, cmd) ==
    /\ FellThrough(chatId, cmd.sub)
    /\ StatusOf(chatId) = "active"
    /\ cmd.sub # tMove
    /\ cmd.sub = tQuit \/ cmd.sub = tEnd
    /\ QuitWith(chatId, cmd, QuitCheck(GameRec(chatId), cmd.userId))

\* "If just .ttt and game is active": reached with no sub-command and with
\* any sub-command that is none of the above (a start or mention included).
CmdStatus(chatId, cmd) ==
    /\ FellThrough(chatId, cmd.sub)
    /\ StatusOf(chatId) = "active"
    /\ cmd.sub # tMove /\ cmd.sub # tQuit /\ cmd.sub # tEnd
    /\ IF StatusOf(chatId) = "active"
       THEN /\ HasFreeSlot
            /\ Set(ticTacToeGames,
                   Suspend(IF GameRec(chatId).messageId # NoId THEN "status_edit"
                                                               ELSE "status_send",
                           chatId, FALSE),
                   heap)
            /\ last' = Cmd(cmd, "BoardAndTurn")
       ELSE IF StatusOf(chatId) = "pending"
       THEN Reply(cmd, "WaitingNotice")
       ELSE Reply(cmd, "none")

\* handleTicTacToe(chatId, userId, userName, args), from its entry to its
\* return or its first await.
handleTicTacToe(chatId, cmd) ==
    \/ CmdStart(chatId, cmd)
    \/ CmdAccept(chatId, cmd)
    \/ CmdDecline(chatId, cmd)
    \/ CmdNoActiveGame(chatId, cmd)
    \/ CmdMove(chatId, cmd)
    \/ CmdQuit(chatId, cmd)
    \/ CmdStatus(chatId, cmd)

\* ------------------------------------------ resumptions: after an await
\* ok is the transport's answer: the promise resolved (TRUE) or rejected.
\* A rejection outside a try block leaves handleTicTacToe as an exception,
\* which the catch of the message handler reports: the handler is over.

\* Slot h returns; the table is tbl and the objects are hp.
Finish(h, tbl, hp) == Set(tbl, Return(h), hp)

\* Slot h moves on to the await at pc, holding msg.
Continue(h, pc, msg) ==
    Set(ticTacToeGames, [handlers EXCEPT ![h].pc = pc, ![h].msg = msg], heap)

\* game.messageId = <message>.message_id, on the object the handler holds
Store(game, msg) == [heap EXCEPT ![game].messageId = msg]

\* const invMsg = await bot.sendMessage(...); game.messageId = invMsg.message_id;
StartSent(h, ok) ==
    /\ handlers[h].pc = "start_send"
    /\ last' = Resumed("start_send", ok)
    /\ IF ok
       THEN Finish(h, ticTacToeGames, Store(handlers[h].game, NewMsg))
       ELSE Finish(h, ticTacToeGames, heap)

\* const turnMsg = await bot.sendMessage(...); if (game.messageId) { await delete }
AcceptSent(h, ok) ==
    /\ handlers[h].pc = "accept_send"
    /\ last' = Resumed("accept_send", ok)
    /\ IF ~ok
       THEN Finish(h, ticTacToeGames, heap)
       ELSE IF heap[handlers[h].game].messageId # NoId
       THEN Continue(h, "accept_delete", NewMsg)
       ELSE Finish(h, ticTacToeGames, Store(handlers[h].game, NewMsg))

\* try { await bot.deleteMessage(...) } catch(e){}  game.messageId = turnMsg.message_id;
AcceptDeleted(h, ok) ==
    /\ handlers[h].pc = "accept_delete"
    /\ last' = Resumed("accept_delete", ok)
    /\ Finish(h, ticTacToeGames, Store(handlers[h].game, handlers[h].msg))

\* await bot.sendMessage(<declined>); if (game.messageId) { await delete }; delete entry
DeclineSent(h, ok) ==
    /\ handlers[h].pc = "decline_send"
    /\ last' = Resumed("decline_send", ok)
    /\ IF ~ok
       THEN Finish(h, ticTacToeGames, heap)
       ELSE IF heap[handlers[h].game].messageId # NoId
       THEN Continue(h, "decline_delete", NoId)
       ELSE Finish(h, Delete(handlers[h].chatId), heap)

\* A decline that a failed deletion of the game message stops.
DeclineDeletedOrStop(h, ok) ==
    /\ handlers[h].pc = "decline_delete"
    /\ last' = Resumed("decline_delete", ok)
    /\ IF ok
       THEN Finish(h, Delete(handlers[h].chatId), heap)
       ELSE Finish(h, ticTacToeGames, heap)

\* try { await bot.deleteMessage(...) } catch(e){}  delete ticTacToeGames[chatId];
DeclineDeleted(h, ok) ==
    /\ handlers[h].pc = "decline_delete"
    /\ last' = Resumed("decline_delete", ok)
    /\ Finish(h, Delete(handlers[h].chatId), heap)

\* The table once the rendering of a move is over:
\* if (winner) delete ticTacToeGames[chatId];
AfterRender(me) == IF me.winner THEN Delete(me.chatId) ELSE ticTacToeGames

\* await bot.editMessageText(...), in the try block of move
MoveEdited(h, ok) ==
    /\ handlers[h].pc = "move_edit"
    /\ last' = Resumed("move_edit", ok)
    /\ IF ok
       THEN Finish(h, AfterRender(handlers[h]), heap)
       ELSE Continue(h, "move_send", NoId)

\* const newMsg = await bot.sendMessage(...); game.messageId = newMsg.message_id;
\* (in the catch of the edit, or when the game has no messageId)
MoveSent(h, ok) ==
    /\ handlers[h].pc = "move_send"
    /\ last' = Resumed("move_send", ok)
    /\ IF ok
       THEN Finish(h, AfterRender(handlers[h]), Store(handlers[h].game, NewMsg))
       ELSE Finish(h, ticTacToeGames, heap)

\* await bot.sendMessage(<ended>); if (game.messageId) { await delete }; delete entry
QuitSent(h, ok) ==
    /\ handlers[h].pc = "quit_send"
    /\ last' = Resumed("quit_send", ok)
    /\ IF ~ok
       THEN Finish(h, ticTacToeGames, heap)
       ELSE IF heap[handlers[h].game].messageId # NoId
       THEN Continue(h, "quit_delete", NoId)
       ELSE Finish(h, Delete(handlers[h].chatId), heap)

\* try { await bot.deleteMessage(...) } catch(e){}  delete ticTacToeGames[chatId];
QuitDeleted(h, ok) ==
    /\ handlers[h].pc = "quit_delete"
    /\ last' = Resumed("quit_delete", ok)
    /\ Finish(h, Delete(handlers[h].chatId), heap)

\* await bot.editMessageText(statusMessage, ...)
StatusEdited(h, ok) ==
    /\ handlers[h].pc = "status_edit"
    /\ last' = Resumed("status_edit", ok)
    /\ IF ok
       THEN Finish(h, ticTacToeGames, heap)
       ELSE Continue(h, "status_send", NoId)

\* const newMsg = await bot.sendMessage(statusMessage, ...); game.messageId = ...
StatusSent(h, ok) ==
    /\ handlers[h].pc = "status_send"
    /\ last' = Resumed("status_send", ok)
    /\ IF ok
       THEN Finish(h, ticTacToeGames, Store(handlers[h].game, NewMsg))
       ELSE Finish(h, ticTacToeGames, heap)

\* handleTicTacToe, from one of its awaits to its return or its next await.
Resumption(h, ok) ==
    \/ StartSent(h, ok)
    \/ AcceptSent(h, ok)
    \/ AcceptDeleted(h, ok)
    \/ DeclineSent(h, ok)
    \/ DeclineDeleted(h, ok)
    \/ MoveEdited(h, ok)
    \/ MoveSent(h, ok)
    \/ QuitSent(h, ok)
    \/ QuitDeleted(h, ok)
    \/ StatusEdited(h, ok)
    \/ StatusSent(h, ok)

\* ------------------------------------------------------ next-state relation

\* Fewer than limit handlers are suspended (the suspended ones come first).
Below(limit) == handlers[limit].pc = "idle"

\* The given commands in the given conversations, and the resumptions of
\* the suspended handlers.  A command is dispatched while fewer than limit
\* handlers are suspended: with limit 1 the commands are handled one at a
\* time (the deployment section 5 of the specification assumes), with 2 a
\* command is handled while another handler waits for the transport.
NextOver(chats, cmds, limit) ==
    \/ \E chatId \in chats, cmd \in cmds : Below(limit) /\ CmdStart(chatId, cmd)
    \/ \E chatId \in chats, cmd \in cmds : Below(limit) /\ CmdAccept(chatId, cmd)
    \/ \E chatId \in chats, cmd \in cmds : Below(limit) /\ CmdDecline(chatId, cmd)
    \/ \E chatId \in chats, cmd \in cmds : Below(limit) /\ CmdNoActiveGame(chatId, cmd)
    \/ \E chatId \in chats, cmd \in cmds : Below(limit) /\ CmdMove(chatId, cmd)
    \/ \E chatId \in chats, cmd \in cmds : Below(limit) /\ CmdQuit(chatId, cmd)
    \/ \E chatId \in chats, cmd \in cmds : Below(limit) /\ CmdStatus(chatId, cmd)
    \/ \E h \in Slots, ok \in BOOLEAN : StartSent(h, ok)
    \/ \E h \in Slots, ok \in BOOLEAN : AcceptSent(h, ok)
    \/ \E h \in Slots, ok \in BOOLEAN : AcceptDeleted(h, ok)
    \/ \E h \in Slots, ok \in BOOLEAN : DeclineSent(h, ok)
    \/ \E h \in Slots, ok \in BOOLEAN : DeclineDeleted(h, ok)
    \/ \E h \in Slots, ok \in BOOLEAN : MoveEdited(h, ok)
    \/ \E h \in Slots, ok \in BOOLEAN : MoveSent(h, ok)
    \/ \E h \in Slots, ok \in BOOLEAN : QuitSent(h, ok)
    \/ \E h \in Slots, ok \in BOOLEAN : QuitDeleted(h, ok)
    \/ \E h \in Slots, ok \in BOOLEAN : StatusEdited(h, ok)
    \/ \E h \in Slots, ok \in BOOLEAN : StatusSent(h, ok)

\* One conversation; alice challenges Bob and plays the cells 1..3, Bob
\* the cells 4 and 5 (X can complete the top row, a draw is out of reach);
\* two handlers in flight.
RaceCommands ==
    Commands({<<1, alice>>},
             { <<>>, <<atBob>>, <<tDecline>>, <<tQuit>> } \cup MoveWords(1 .. 3))
    \cup
    Commands({<<2, Bob>>},
             { <<>>, <<tAccept>>, <<tDecline>>, <<tQuit>> } \cup MoveWords(4 .. 5))

Next == NextOver({1}, RaceCommands, MaxInFlight)

Spec == Init /\ [][Next]_vars

\* One conversation, every user under every name, every word, the cells
\* 1 and 2; one command at a time.
ProtocolCommands == Commands(Users \X Names, OtherWords \cup MoveWords(0 .. 2))

NextProtocol == NextOver({1}, ProtocolCommands, 1)

SpecProtocol == Init /\ [][NextProtocol]_vars

\* One conversation; alice challenges Bob; alice plays six cells and Bob
\* five of them: X can complete 1-4-7 and 7-8-9, O can complete 2-5-8, and
\* X 1 3 4 8 9 with O 2 5 6 7 is a draw; one command at a time.
BoardCommands ==
    Commands({<<1, alice>>},
             { <<atBob>>, <<tQuit>> } \cup MoveWords({1, 3, 4, 7, 8, 9}))
    \cup
    Commands({<<2, Bob>>},
             { <<>>, <<tAccept>>, <<tDecline>> } \cup MoveWords({2, 5, 6, 7, 8}))

NextBoard == NextOver({1}, BoardCommands, 1)

SpecBoard == Init /\ [][NextBoard]_vars

\* Every conversation; alice challenges Bob and plays cell 1, Bob cell 2;
\* two handlers in flight, of one conversation or of two.
ChatsCommands ==
    Commands({<<1, alice>>}, { <<atBob>>, <<tQuit>> } \cup MoveWords(1 .. 1))
    \cup
    Commands({<<2, Bob>>}, { <<>>, <<tAccept>>, <<tDecline>> } \cup MoveWords(2 .. 2))

NextChats == NextOver(Chats, ChatsCommands, MaxInFlight)

SpecChats == Init /\ [][NextChats]_vars

\* The result evaluation alone, on every board over {null, X, O}: the
\* history holds the board that is passed and then the value returned.
Boards == [0 .. (BoardCells - 1) -> {null, "X", "O"}]

InitEval ==
    /\ ticTacToeGames = [c \in Chats |-> NoId]
    /\ heap = [o \in ObjIds |-> Free]
    /\ handlers = [h \in Slots |-> Idle]
    /\ \E board \in Boards : last = [sub |-> "board", arg |-> board, out |-> "none"]

\* const winner = checkTicTacToeWin(game.board);
Evaluate ==
    /\ last.sub \in {"board", "checkTicTacToeWin"}
    /\ last' = [sub |-> "checkTicTacToeWin", arg |-> last.arg,
                out |-> checkTicTacToeWin(last.arg)]
    /\ UNCHANGED <<ticTacToeGames, heap, handlers>>

NextEval == Evaluate

SpecEval == InitEval /\ [][NextEval]_vars

\* --------------------------------------------------------------- properties

\* The commands of the protocol that are moves, and those that are quits.
MoveCommands == {cmd \in ProtocolCommands : cmd.class = "move"}
QuitCommands == {cmd \in ProtocolCommands : cmd.class \in {"quit", "end"}}

\* What the history records as the sub-command of a command.
StartSubs == {"start", "mention"}
QuitSubs == {"quit", "end"}

\* The replies that report a precondition error.  (GameNotActive and
\* NoActiveGame are one reply of the code: "No active game.")
PreconditionErrors ==
    {"GameAlreadyInProgress", "InvalidOpponent", "NoPendingChallenge",
     "NotTheChallengedPlayer", "ChallengerCannotAccept", "NotPartOfChallenge",
     "NotYourTurn", "InvalidMove", "NoActiveGame", "NotAParticipant"}

\* The board, currentMark, player slots and status of a game.
Core(game) ==
    IF game = Free THEN Free
    ELSE [board |-> game.board, currentPlayer |-> game.currentPlayer,
          players |-> game.players, status |-> game.status]

Marks(board) == {i \in DOMAIN board : board[i] # null}

Other(mark) == IF mark = "X" THEN "O" ELSE "X"

\* The user of cmd is the player whose turn it is.
OnTurn(game, cmd) == game.players[game.currentPlayer].id = cmd.userId

\* cmd names a cell of the board that holds a mark.
Occupied(game, cmd) ==
    /\ ~cmd.move.nan
    /\ cmd.move.val \in 1 .. BoardCells
    /\ game.board[cmd.move.val - 1] # null

\* cmd names a cell number outside 1..9.
OffBoard(cmd) == ~cmd.move.nan /\ cmd.move.val \notin 1 .. BoardCells

\* The entry of conversation c is removed in this step.
Removed(c) == HasGame(c) /\ ticTacToeGames'[c] = NoId

\* C1: once the handler of a move that produced a win or a draw has
\* finished (its edit succeeded, or its send succeeded or failed), the table
\* holds no record for the conversation.
C1_TerminalMoveLeavesNoRecord ==
    [][\A h \in Slots, ok \in BOOLEAN :
          (/\ handlers[h].winner
           /\ MoveEdited(h, TRUE) \/ MoveSent(h, ok))
          => ticTacToeGames'[handlers[h].chatId] = NoId]_vars

\* C2: a decline that passed its 'pending' check, or a quit that passed its
\* 'active' check, removes the entry after its transport calls only if the
\* entry is still the game it checked, in the status it checked.
C2_RemovalIsOfTheCheckedGame ==
    [][\A h \in Slots, ok \in BOOLEAN, c \in Chats :
          /\ (Removed(c) /\ (DeclineSent(h, ok) \/ DeclineDeleted(h, ok)))
                => (handlers[h].game = GameOf(c) /\ StatusOf(c) = "pending")
          /\ (Removed(c) /\ (QuitSent(h, ok) \/ QuitDeleted(h, ok)))
                => (handlers[h].game = GameOf(c) /\ StatusOf(c) = "active")]_vars

\* C3: a pending game is never removed by the cleanup that finishes the
\* terminal move of an earlier game after its rendering.
C3_MoveCleanupSparesPendingGame ==
    [][\A h \in Slots, ok \in BOOLEAN, c \in Chats :
          (StatusOf(c) = "pending" /\ (MoveEdited(h, ok) \/ MoveSent(h, ok)))
          => ticTacToeGames'[c] # NoId]_vars

\* C4: a start or mention command handled while the conversation has a
\* pending or active game creates no game and leaves that game in the table
\* with its board, currentMark, player slots and status as they were.
C4_StartLeavesTheGame ==
    [][\A c \in Chats :
          (last'.sub \in StartSubs /\ StatusOf(c) \in {"pending", "active"})
          => /\ last'.out # "ChallengeIssued"
             /\ ticTacToeGames'[c] # NoId
             /\ Core(GameRec(c))' = Core(GameRec(c))]_vars

\* A start was handled on an active game with a mark on its board, and the
\* game is still there.
C4_Witness ==
    /\ last.sub \in StartSubs
    /\ last.out = "BoardAndTurn"
    /\ StatusOf(1) = "active"
    /\ Marks(GameRec(1).board) # {}

\* C5: the first move of a game places X; every accepted non-terminal move
\* places the mark of currentMark on one empty cell and flips currentMark;
\* rejected moves and status queries leave currentMark as it was.
C5_MarksAlternate ==
    [][\A c \in Chats :
          /\ (StatusOf(c) = "active" /\ Marks(GameRec(c).board) = {})
                => GameRec(c).currentPlayer = "X"
          /\ (StatusOf(c) = "active" /\ last'.sub = "move" /\ last'.out = "Moved")
                => /\ \E i \in DOMAIN GameRec(c).board :
                          /\ GameRec(c).board[i] = null
                          /\ GameRec(c)'.board =
                                 [GameRec(c).board EXCEPT ![i] = GameRec(c).currentPlayer]
                   /\ GameRec(c)'.currentPlayer = Other(GameRec(c).currentPlayer)
          /\ (/\ StatusOf(c) = "active"
              /\ last'.sub = "none" \/ last'.out \in {"NotYourTurn", "InvalidMove"})
                => /\ ticTacToeGames'[c] # NoId
                   /\ GameRec(c)'.currentPlayer = GameRec(c).currentPlayer]_vars

\* The third move of a game was accepted: X, O, X are on the board and it
\* is the turn of O.
C5_Witness ==
    /\ last.sub = "move"
    /\ last.out = "Moved"
    /\ StatusOf(1) = "active"
    /\ Cardinality(Marks(GameRec(1).board)) = 3
    /\ GameRec(1).currentPlayer = "O"

\* cmd, a move that names an occupied cell of game or a cell number outside
\* 1..9, is handled in this step: it is answered with out, and the game of
\* conversation c keeps its board and currentMark.
BadCellStep(c, cmd, game) ==
    /\ Occupied(game, cmd) \/ OffBoard(cmd)
    /\ CmdMove(c, cmd)

BadCellRejected(c, game, out) ==
    /\ last'.out = out
    /\ ticTacToeGames'[c] # NoId
    /\ GameRec(c)'.board = game.board
    /\ GameRec(c)'.currentPlayer = game.currentPlayer

\* C6 (as the code has it): a move that names an occupied cell or a cell
\* number outside 1..9 fails, with InvalidMove when it is made by the player
\* whose turn it is and with NotYourTurn otherwise, and leaves the board and
\* currentMark unchanged.
C6_BadCellIsRejected ==
    [][last'.sub = "move" =>
          \A c \in Chats : StatusOf(c) = "active" =>
              \A cmd \in MoveCommands :
                  BadCellStep(c, cmd, GameRec(c)) =>
                      BadCellRejected(c, GameRec(c),
                                      IF OnTurn(GameRec(c), cmd) THEN "InvalidMove"
                                                                 ELSE "NotYourTurn")]_vars

\* C6 as stated: such a move fails with InvalidMove, whoever makes it.
C6_BadCellIsInvalidMove ==
    [][last'.sub = "move" =>
          \A c \in Chats : StatusOf(c) = "active" =>
              \A cmd \in MoveCommands :
                  BadCellStep(c, cmd, GameRec(c)) =>
                      BadCellRejected(c, GameRec(c), "InvalidMove")]_vars

\* A move on an occupied cell was answered with InvalidMove.
C6_Witness ==
    /\ last.sub = "move"
    /\ last.out = "InvalidMove"
    /\ StatusOf(1) = "active"
    /\ ~last.arg.nan
    /\ last.arg.val \in 1 .. BoardCells
    /\ GameRec(1).board[last.arg.val - 1] # null

\* C7: a command answered with a precondition error leaves the table and
\* every game as they were.
C7_ErrorsChangeNothing ==
    [][last'.out \in PreconditionErrors
          => (ticTacToeGames' = ticTacToeGames /\ heap' = heap)]_vars

\* The challenger, under the challenged name, tried to accept: the game is
\* pending as before.
C7_Witness ==
    /\ last.out = "ChallengerCannotAccept"
    /\ StatusOf(1) = "pending"
    /\ GameRec(1).players.O.id = NoId

\* C8: quit or end by the challenger of a pending game is accepted as the
\* quit of a player of an active game is (the handler then removes the game).
C8_ChallengerQuitsPendingGame ==
    [][last'.sub \in QuitSubs => \A c \in Chats, cmd \in QuitCommands :
          (/\ StatusOf(c) = "pending"
           /\ GameRec(c).players.X.id = cmd.userId
           /\ handleTicTacToe(c, cmd))
          => last'.out = "Quit"]_vars

\* C9: the command with no sub-argument answers by the state of the game,
\* and changes nothing of it.
C9_StatusAnswersByState ==
    [][\A c \in Chats :
          last'.sub = "none"
          => /\ last'.out = CASE StatusOf(c) = "pending" -> "WaitingNotice"
                              [] StatusOf(c) = "active"  -> "BoardAndTurn"
                              [] OTHER                   -> "NoActiveGame"
             /\ Core(GameRec(c))' = Core(GameRec(c))]_vars

\* C10: a start or mention command handled while the conversation has a
\* pending or active game is answered with GameAlreadyInProgress.
C10_StartIsAlreadyInProgress ==
    [][\A c \in Chats :
          (last'.sub \in StartSubs /\ StatusOf(c) \in {"pending", "active"})
          => last'.out = "GameAlreadyInProgress"]_vars

\* The commands of the protocol that are accepts, declines and starts.
AcceptCommands == {cmd \in ProtocolCommands : cmd.class = "accept"}
DeclineCommands == {cmd \in ProtocolCommands : cmd.class = "decline"}
StartCommands == {cmd \in ProtocolCommands : cmd.class \in {"start", "mention"}}

\* C11: accept on a pending game by the identity that issued the challenge
\* fails with ChallengerCannotAccept, under whatever display name, and
\* leaves the game pending with O unbound.
C11_ChallengerCannotAccept ==
    [][last'.sub = "accept" =>
          \A c \in Chats : StatusOf(c) = "pending" =>
              \A cmd \in AcceptCommands :
                  (GameRec(c).players.X.id = cmd.userId /\ handleTicTacToe(c, cmd))
                  => /\ last'.out = "ChallengerCannotAccept"
                     /\ StatusOf(c)' = "pending"
                     /\ GameRec(c)'.players.O.id = NoId]_vars

\* The 8 triples of the reference: rows, columns, diagonals, in this order.
RefTriples ==
    [r \in 1 .. 3 |-> {3 * (r - 1) + k : k \in 0 .. 2}]
        \o [col \in 1 .. 3 |-> {(col - 1) + 3 * k : k \in 0 .. 2}]
        \o << {4 * k : k \in 0 .. 2}, {2 + 2 * k : k \in 0 .. 2} >>

\* Triple t of board holds three marks m.
Complete(board, t, m) == \A i \in t : board[i] = m

\* The marks that have a complete triple.
Winners(board) ==
    {m \in {"X", "O"} : \E n \in DOMAIN RefTriples : Complete(board, RefTriples[n], m)}

\* The mark of the first complete triple in the order of RefTriples.
FirstWinner(board) ==
    LET n == CHOOSE k \in DOMAIN RefTriples :
                 /\ \E m \in {"X", "O"} : Complete(board, RefTriples[k], m)
                 /\ \A j \in 1 .. (k - 1) :
                        \A m \in {"X", "O"} : ~Complete(board, RefTriples[j], m)
    IN  CHOOSE m \in {"X", "O"} : Complete(board, RefTriples[n], m)

Full(board) == \A i \in DOMAIN board : board[i] # null

SlotsBound(c) ==
    HasGame(c) =>
        /\ GameRec(c).players.X.id # NoId
        /\ GameRec(c).players.O.id = NoId <=> StatusOf(c) = "pending"

\* The step leaves the game of conversation c in the table (it neither
\* removes it nor replaces it by a new challenge).
SameGame(c) == HasGame(c) /\ ticTacToeGames'[c] # NoId /\ last'.out # "ChallengeIssued"

\* C13: X is bound to the challenger when the game is created and never
\* changes; O's identity is null exactly while the game is pending; once
\* bound it does not change, and neither display name changes during the
\* game.
C13_SlotsStayBound ==
    [][\A c \in Chats :
          /\ SlotsBound(c)
          /\ SlotsBound(c)'
          /\ last'.out = "ChallengeIssued" =>
                 \A cmd \in StartCommands :
                     handleTicTacToe(c, cmd) => GameRec(c)'.players.X.id = cmd.userId
          /\ SameGame(c) =>
                 /\ GameRec(c)'.players.X = GameRec(c).players.X
                 /\ GameRec(c)'.players.O.name = GameRec(c).players.O.name
                 /\ GameRec(c).players.O.id # NoId =>
                        GameRec(c)'.players.O.id = GameRec(c).players.O.id]_vars

\* A move was made in a game whose O slot accept has bound.
C13_Witness ==
    /\ last.out = "Moved"
    /\ StatusOf(1) = "active"
    /\ GameRec(1).players.O.id # NoId
    /\ GameRec(1).players.X.id # GameRec(1).players.O.id

\* The step puts the mark of the turn of game on one empty cell of the
\* board of conversation c, and nothing else on it.
PlacesOwnMark(c, game) ==
    \E i \in DOMAIN game.board :
        /\ game.board[i] = null
        /\ GameRec(c)'.board = [game.board EXCEPT ![i] = game.currentPlayer]

\* What C14 says of the step that handles the move cmd on the active game.
TurnRespected(c, cmd, game) ==
    IF OnTurn(game, cmd)
    THEN last'.out \in {"Moved", "GameOver"} => PlacesOwnMark(c, game)
    ELSE /\ last'.out = "NotYourTurn"
         /\ ticTacToeGames'[c] # NoId
         /\ GameRec(c)'.board = game.board
         /\ GameRec(c)'.currentPlayer = game.currentPlayer

\* C14: a move on an active game by anyone but the identity bound to
\* currentMark fails with NotYourTurn and leaves the board and currentMark
\* unchanged; an accepted move is made by that identity and places its mark.
C14_OnlyThePlayerOnTurnMoves ==
    [][last'.sub = "move" =>
          \A c \in Chats : StatusOf(c) = "active" =>
              \A cmd \in MoveCommands :
                  CmdMove(c, cmd) => TurnRespected(c, cmd, GameRec(c))]_vars

\* A move was answered with NotYourTurn in a game with marks on its board.
C14_Witness ==
    /\ last.sub = "move"
    /\ last.out = "NotYourTurn"
    /\ StatusOf(1) = "active"
    /\ Marks(GameRec(1).board) # {}

\* What C15 says of the step that handles the accept cmd, game being what
\* the table holds for conversation c before it.
AcceptedAsClaimed(c, cmd, game) ==
    /\ last'.out = "Accepted" =>
           /\ game # Free
           /\ game.status = "pending"
           /\ ToLower(game.players.O.name) = ToLower(cmd.userName)
           /\ game.players.X.id # cmd.userId
           /\ GameRec(c)'.players.O.id = cmd.userId
           /\ GameRec(c)'.status = "active"
           /\ GameRec(c)'.board = EmptyBoard
           /\ GameRec(c)'.currentPlayer = "X"
    /\ (game = Free \/ game.status = "active") => last'.out = "NoPendingChallenge"

\* C15: accept succeeds only on a pending game, for an actor whose display
\* name matches the name of the O slot whatever the case of the letters and
\* whose identity is not the challenger's; it then binds O to the accepter,
\* makes the game active and leaves the board empty and currentMark X; on an
\* absent or active game it fails with NoPendingChallenge.
C15_AcceptBindsTheChallenged ==
    [][last'.sub = "accept" =>
          \A c \in Chats, cmd \in AcceptCommands :
              handleTicTacToe(c, cmd) => AcceptedAsClaimed(c, cmd, GameRec(c))]_vars

\* A challenge of "@Bob", stored as "bob", was accepted (by a user named
\* Bob): the game is active, O is bound, the board is empty.
C15_Witness ==
    /\ last.out = "Accepted"
    /\ StatusOf(1) = "active"
    /\ GameRec(1).players.O.id # NoId
    /\ GameRec(1).players.O.name = ToLower(Bob)
    /\ GameRec(1).board = EmptyBoard

\* The step changes neither the table nor a game.
NothingChanged == ticTacToeGames' = ticTacToeGames /\ heap' = heap

\* What C16 says of the step that handles the decline cmd, game being what
\* the table holds for conversation c before it.
DeclinedAsClaimed(c, cmd, game) ==
    IF game = Free \/ game.status # "pending"
    THEN last'.out = "NoPendingChallenge" /\ NothingChanged
    ELSE IF \/ ToLower(game.players.O.name) = ToLower(cmd.userName)
            \/ game.players.X.id = cmd.userId
    THEN last'.out = "Declined" /\ handlers'[1].pc = "decline_send"
    ELSE last'.out = "NotPartOfChallenge" /\ NothingChanged

Untouched(b) ==
    /\ ticTacToeGames'[b] = ticTacToeGames[b]
    /\ Core(GameRec(b))' = Core(GameRec(b))
    /\ HasGame(b) => ((GameRec(b).messageId = NoId)' <=> (GameRec(b).messageId = NoId))

\* The step is one of the handling of a command of a conversation other than
\* b: the start of a handler, or the resumption of a suspended one.
ServesAnother(b) ==
    \/ \E a \in Chats \ {b}, cmd \in ChatsCommands : handleTicTacToe(a, cmd)
    \/ \E h \in Slots, ok \in BOOLEAN :
           /\ handlers[h].pc # "idle"
           /\ handlers[h].chatId # b
           /\ Resumption(h, ok)

\* C17: a step of the handling of a command of one conversation, before or
\* after a suspension, leaves the entry and the game of every other
\* conversation unchanged.
C17_ConversationsAreIndependent ==
    [][\A b \in Chats : Untouched(b) \/ ~ServesAnother(b)]_vars

\* The handler of a decline or a quit has just removed the entry of one
\* conversation (the step after its deletion of the game message), and the
\* other conversation has its game and the handle of its message.
C17_Witness ==
    /\ last.sub \in {"decline_delete", "quit_delete"}
    /\ \E a, b \in Chats : ~HasGame(a) /\ HasGame(b) /\ GameRec(b).messageId # NoId

\* The handler suspended in slot h serves the game its conversation has now.
ServesTheGame(h) ==
    /\ handlers[h].game # NoId
    /\ ticTacToeGames[handlers[h].chatId] = handlers[h].game

\* C18: the handle stored on a game is that of the message of the last
\* presenter call made for it.  The send of the invitation is the first call
\* made for a game, and a handle the game already holds is that of a
\* later call's message: when the send of the invitation resolves and its
\* handle is stored on the conversation's game, the game holds no handle.
C18_HandleIsOfTheLastCall ==
    [][\A h \in Slots :
          (ServesTheGame(h) /\ StartSent(h, TRUE))
              => heap[handlers[h].game].messageId = NoId]_vars

\* Slot h is suspended at pc for conversation c.
SuspendedAt(h, pc, c) == handlers[h].pc = pc /\ handlers[h].chatId = c

NamedOpponent(cmd) == Slice1(cmd.mention)

\* The start cmd names no opponent it may challenge: no mention, an empty
\* name, or the challenger's own name whatever the case of the letters.
NoOpponent(cmd) ==
    \/ cmd.mention = <<>>
    \/ NamedOpponent(cmd) = <<>>
    \/ ToLower(NamedOpponent(cmd)) = ToLower(cmd.userName)

\* What C20 says of the step that handles the start cmd in conversation c,
\* which has no game.
ChallengedAsClaimed(c, cmd) ==
    IF NoOpponent(cmd)
    THEN last'.out = "InvalidOpponent" /\ ~HasGame(c)'
    ELSE /\ last'.out = "ChallengeIssued"
         /\ GameRec(c)'.status = "pending"
         /\ GameRec(c)'.board = EmptyBoard
         /\ GameRec(c)'.currentPlayer = "X"
         /\ GameRec(c)'.players.X = [id |-> cmd.userId, name |-> cmd.userName]
         /\ GameRec(c)'.players.O = [id |-> NoId, name |-> NamedOpponent(cmd)]

\* C20: a start in a conversation that has no game fails with
\* InvalidOpponent and creates no game when it has no mention, when the name
\* of its mention is empty or when that name is the challenger's own; else it
\* creates a pending game with an empty board, currentMark X, X bound to the
\* challenger and O unbound under the name of the mention.
C20_ChallengeNeedsAnOpponent ==
    [][last'.sub \in StartSubs =>
          \A c \in Chats : ~HasGame(c) =>
              \A cmd \in StartCommands :
                  CmdStart(c, cmd) => ChallengedAsClaimed(c, cmd)]_vars

\* The number of cells of board that hold mark.
Count(board, mark) == Cardinality({i \in DOMAIN board : board[i] = mark})

\* X has as many cells as O or one more; on an active game the turn is X's
\* exactly when the counts are equal; a pending game is as created.
BoardAndTurnAgree(game) ==
    /\ Count(game.board, "X") - Count(game.board, "O") \in {0, 1}
    /\ game.status = "active" =>
           (game.currentPlayer = "X" <=> Count(game.board, "X") = Count(game.board, "O"))
    /\ game.status = "pending" =>
           game.board = EmptyBoard /\ game.currentPlayer = "X"

\* C21: every game in the table has 0 or 1 more X cells than O cells; while
\* it is active currentMark is X exactly when the two counts are equal; while
\* it is pending its board is empty and currentMark is X.
C21_BoardAndTurnAgree ==
    \A c \in Chats : HasGame(c) => BoardAndTurnAgree(GameRec(c))

\* Five moves were made on an active game: X holds 3 cells, O holds 2, and
\* the turn is O's.
C21_Witness ==
    /\ StatusOf(1) = "active"
    /\ Count(GameRec(1).board, "X") = 3
    /\ Count(GameRec(1).board, "O") = 2
    /\ GameRec(1).currentPlayer = "O"

\* The board is not decided: no complete triple, and an empty cell.
Undecided(board) == checkTicTacToeWin(board) = null

\* Every active game of the table has an undecided board.
ActiveIsUndecided ==
    \A c \in Chats : StatusOf(c) = "active" => Undecided(GameRec(c).board)

\* The step is a move accepted in conversation c.
MoveAccepted(c) ==
    /\ last'.sub = "move"
    /\ last'.out \in {"Moved", "GameOver"}
    /\ \E cmd \in BoardCommands : CmdMove(c, cmd)

\* A move accepted on a board of 8 marks ends the game.
NinthMoveEnds ==
    \A c \in Chats :
        (/\ StatusOf(c) = "active"
         /\ Cardinality(Marks(GameRec(c).board)) = BoardCells - 1
         /\ MoveAccepted(c))
        => last'.out = "GameOver" /\ StatusOf(c)' = "ended"

\* C22: an active game never has a complete triple or a full board, also
\* while the handler of the move that decided the board is suspended in its
\* rendering; a move accepted on a board of 8 marks, the 9th of the game,
\* ends it.
C22_NoMoveOnADecidedBoard == [](ActiveIsUndecided) /\ [][NinthMoveEnds]_vars

\* The 9th move has filled the board with no complete triple; its handler is
\* suspended in its rendering and the game, still in the table, is ended.
C22_Witness ==
    /\ last.out = "GameOver"
    /\ StatusOf(1) = "ended"
    /\ checkTicTacToeWin(GameRec(1).board) = "draw"
    /\ \E h \in Slots : handlers[h].pc \in {"move_edit", "move_send"} /\ handlers[h].winner

\* C23: in every active game of the table the identity bound to O is not
\* the identity bound to X, whatever names the users carried on their
\* commands.
C23_PlayersAreDistinct ==
    \A c \in Chats :
        StatusOf(c) = "active" => GameRec(c).players.O.id # GameRec(c).players.X.id

\* A user named Bob challenged "@Alice" and a user named alice accepted: the
\* game is active and both slots are bound.
C23_Witness ==
    /\ StatusOf(1) = "active"
    /\ GameRec(1).players.X.name = Bob
    /\ GameRec(1).players.O.name = ToLower(alice)
    /\ GameRec(1).players.X.id # NoId
    /\ GameRec(1).players.O.id # NoId

====
